---------------------------- MODULE Spec2Model ----------------------------
(***************************************************************************)
(* Model of the credential and session state store of                      *)
(* libsignal-protocol-demo (src/store.ts, class SignalProtocolStore).      *)
(*                                                                         *)
(* A JavaScript string used as a map key or as a stored value is a         *)
(* sequence of one-character strings ("bob.1" is <<"b","o","b",".","1">>). *)
(* A string produced by String.fromCharCode (arrayBufferToString) is the   *)
(* sequence of its UTF-16 code units; such strings are only ever compared  *)
(* with each other.  A byte buffer is the sequence of its bytes.           *)
(***************************************************************************)
EXTENDS Integers, Sequences, FiniteSets, TLC

(***************************************************************************)
(* JavaScript values.  Every value is a record of one shape:               *)
(*   t       the kind of value                                             *)
(*   s       the characters of a string                                    *)
(*   n       a number, or 1/0 for a boolean                                *)
(*   a       the bytes of an ArrayBuffer                                   *)
(*   pubKey, privKey   the two properties isKeyPairType reads of an object *)
(* A property is itself a small record: absent (undefined) or a buffer.    *)
(***************************************************************************)
NoProp == [t |-> "undefined", a |-> <<>>]
BufProp(bytes) == [t |-> "ArrayBuffer", a |-> bytes]

JS(t, s, n, a, pub, priv) ==
    [t |-> t, s |-> s, n |-> n, a |-> a, pubKey |-> pub, privKey |-> priv]

Undefined == JS("undefined", <<>>, 0, <<>>, NoProp, NoProp)
Null == JS("null", <<>>, 0, <<>>, NoProp, NoProp)
Num(n) == JS("number", <<>>, n, <<>>, NoProp, NoProp)
Str(s) == JS("string", s, 0, <<>>, NoProp, NoProp)
Bool(b) == JS("boolean", <<>>, IF b THEN 1 ELSE 0, <<>>, NoProp, NoProp)
Buf(bytes) == JS("ArrayBuffer", <<>>, 0, bytes, NoProp, NoProp)
\* { pubKey, privKey }: KeyPairType
KeyPair(pub, priv) == JS("object", <<>>, 0, <<>>, BufProp(pub), BufProp(priv))
\* { keyId, keyPair }: PreKeyType, an object with neither pubKey nor privKey
PreKeyObj(keyId) == JS("object", <<>>, keyId, <<>>, NoProp, NoProp)
\* an object that has a pubKey and no privKey
HalfPair(pub) == JS("object", <<>>, 0, <<>>, BufProp(pub), NoProp)

True == Bool(TRUE)
False == Bool(FALSE)

\* v == null (loose equality): null or undefined
IsNullish(v) == v.t \in {"null", "undefined"}

\* !!v
Truthy(v) ==
    CASE v.t \in {"undefined", "null"} -> FALSE
      [] v.t = "number" -> v.n # 0
      [] v.t = "boolean" -> v.n # 0
      [] v.t = "string" -> v.s # <<>>
      [] OTHER -> TRUE

\* typeof v
TypeOf(v) ==
    CASE v.t = "undefined" -> "undefined"
      [] v.t = "number" -> "number"
      [] v.t = "boolean" -> "boolean"
      [] v.t = "string" -> "string"
      [] OTHER -> "object"

Digit == <<"0", "1", "2", "3", "4", "5", "6", "7", "8", "9">>

RECURSIVE NumToString(_)
NumToString(n) ==
    IF n < 10 THEN <<Digit[n + 1]>>
    ELSE NumToString(n \div 10) \o <<Digit[(n % 10) + 1]>>

\* String(v), as a template literal or string + v converts a primitive
JSToString(v) ==
    CASE v.t = "string" -> v.s
      [] v.t = "null" -> <<"n", "u", "l", "l">>
      [] v.t = "undefined" -> <<"u", "n", "d", "e", "f", "i", "n", "e", "d">>
      [] v.t = "number" -> NumToString(v.n)
      [] v.t = "boolean" ->
            IF v.n # 0 THEN <<"t", "r", "u", "e">> ELSE <<"f", "a", "l", "s", "e">>
      [] OTHER -> <<"[", "o", "b", "j", "e", "c", "t", "]">>

\* key.startsWith(prefix)
StartsWith(key, prefix) ==
    /\ Len(prefix) <= Len(key)
    /\ SubSeq(key, 1, Len(prefix)) = prefix

(***************************************************************************)
(* Type guards, src/store.ts lines 27-61.                                  *)
(***************************************************************************)
isArrayBufferProp(p) == p.t = "ArrayBuffer"

isArrayBuffer(thing) ==
    /\ Truthy(thing)
    /\ TypeOf(thing) = "object"
    /\ thing.t = "ArrayBuffer"

isKeyPairType(kp) ==
    IF ~Truthy(kp) \/ TypeOf(kp) # "object" THEN FALSE
    ELSE isArrayBufferProp(kp.privKey) /\ isArrayBufferProp(kp.pubKey)

(***************************************************************************)
(* STORE_PREFIX, src/store.ts lines 63-68, and the registration id key.    *)
(***************************************************************************)
STORE_PREFIX ==
    [PREKEY |-> <<"S", "y", "l", "e", "n", "s", "-", "K", "e", "y",
                  "p", "r", "e", "K", "e", "y">>,
     SIGNED_KEY |-> <<"S", "y", "l", "e", "n", "s", "-", "K", "e", "y",
                      "s", "i", "g", "n", "e", "d", "K", "e", "y">>,
     IDENTITY |-> <<"i", "d", "e", "n", "t", "i", "t", "y", "K", "e", "y">>,
     SESSION |-> <<"s", "e", "s", "s", "i", "o", "n">>]

REGISTRATION_ID ==
    <<"r", "e", "g", "i", "s", "t", "r", "a", "t", "i", "o", "n", "I", "d">>

(***************************************************************************)
(* Byte/string codec, src/store.ts lines 239-255.                          *)
(***************************************************************************)
chunkSize == 1024

MinOf(x, y) == IF x < y THEN x ELSE y

\* String.fromCharCode(...chunk): one UTF-16 code unit per element
fromCharCode(chunk) == [j \in 1..Len(chunk) |-> chunk[j] % 65536]

\* the loop of uint8ArrayToString from (0-based) offset i on, parts joined
RECURSIVE JoinChunks(_, _)
JoinChunks(arr, i) ==
    IF i < Len(arr)
    THEN fromCharCode(SubSeq(arr, i + 1, MinOf(i + chunkSize, Len(arr))))
         \o JoinChunks(arr, i + chunkSize)
    ELSE <<>>

\* uint8ArrayToString as it would be if only the first chunk were converted
uint8ArrayToString_FirstChunk(arr) ==
    IF Len(arr) = 0 THEN <<>>
    ELSE fromCharCode(SubSeq(arr, 1, MinOf(chunkSize, Len(arr))))

uint8ArrayToString(arr) ==
    IF Len(arr) = 0 THEN <<>> ELSE JoinChunks(arr, 0)

arrayBufferToString(b) == uint8ArrayToString(b.a)

(***************************************************************************)
(* SignalProtocolAddress.fromString(identifier).getName(), as called at    *)
(* src/store.ts lines 170-174.  The library accepts a string that matches  *)
(* /.*\.\d+/ (a "." directly followed by a digit, anywhere) and takes as   *)
(* the name the part before the first ".".                                 *)
(***************************************************************************)
IsDigit(c) == \E d \in 1..10 : Digit[d] = c

AddressMatches(s) ==
    \E i \in 1..Len(s) : s[i] = "." /\ i < Len(s) /\ IsDigit(s[i + 1])

FirstDot(s) ==
    CHOOSE i \in 1..Len(s) : s[i] = "." /\ \A j \in 1..(i - 1) : s[j] # "."

getName(s) == SubSeq(s, 1, FirstDot(s) - 1)

(***************************************************************************)
(* The outcome of a call: the store it leaves, the value it returns        *)
(* (Undefined for void and when it throws), and the error it throws.       *)
(***************************************************************************)
NoError == "none"
InvalidArgument == "InvalidArgument"
CorruptState == "CorruptState"
InvalidAddress == "InvalidAddress"

Ok(st, res) == [st |-> st, res |-> res, err |-> NoError]
Throw(st, err) == [st |-> st, res |-> Undefined, err |-> err]

\* Map.prototype.delete and Map.prototype.set on this._store
MapDelete(st, k) == [x \in (DOMAIN st) \ {k} |-> st[x]]
MapSet(st, k, v) == [x \in (DOMAIN st) \cup {k} |-> IF x = k THEN v ELSE st[x]]

(***************************************************************************)
(* Primitive operations, src/store.ts lines 77-102.  validateKey and       *)
(* validateKeyValue are TRUE when they return and FALSE when they throw.   *)
(***************************************************************************)
validateKey(key) == ~IsNullish(key)

validateKeyValue(key, value) == ~(IsNullish(key) \/ IsNullish(value))

\* get as it would be if reading an entry consumed it
get_Consuming(st, key, defaultValue) ==
    IF ~validateKey(key) THEN Throw(st, InvalidArgument)
    ELSE Ok(MapDelete(st, key.s),
            IF key.s \in DOMAIN st THEN st[key.s] ELSE defaultValue)

get(st, key, defaultValue) ==
    IF ~validateKey(key) THEN Throw(st, InvalidArgument)
    ELSE Ok(st, IF key.s \in DOMAIN st THEN st[key.s] ELSE defaultValue)

remove(st, key) ==
    IF ~validateKey(key) THEN Throw(st, InvalidArgument)
    ELSE Ok(MapDelete(st, key.s), Undefined)

\* put as it would be if it validated the key alone
put_KeyCheckedOnly(st, key, value) ==
    IF ~validateKey(key) THEN Throw(st, InvalidArgument)
    ELSE Ok(MapSet(st, key.s, value), Undefined)

put(st, key, value) ==
    IF ~validateKeyValue(key, value) THEN Throw(st, InvalidArgument)
    ELSE Ok(MapSet(st, key.s, value), Undefined)

(***************************************************************************)
(* Typed accessors, src/store.ts lines 104-236.                            *)
(***************************************************************************)
\* getIdentityKeyPair as it would be if it read the registration id's key
getIdentityKeyPair_WrongKey(st) ==
    LET kp == get(st, Str(REGISTRATION_ID), Undefined).res
    IN  IF ~Truthy(kp) THEN Ok(st, Undefined)
        ELSE IF isKeyPairType(kp) THEN Ok(st, kp)
        ELSE Throw(st, CorruptState)

getIdentityKeyPair(st) ==
    LET kp == get(st, Str(STORE_PREFIX.IDENTITY), Undefined).res
    IN  IF ~Truthy(kp) THEN Ok(st, Undefined)
        ELSE IF isKeyPairType(kp) THEN Ok(st, kp)
        ELSE Throw(st, CorruptState)

getLocalRegistrationId(st) ==
    LET rid == get(st, Str(REGISTRATION_ID), Undefined).res
    IN  IF TypeOf(rid) = "number" \/ TypeOf(rid) = "undefined" THEN Ok(st, rid)
        ELSE Throw(st, CorruptState)

\* isTrustedIdentity as it would be if a first use recorded the candidate key
isTrustedIdentity_Recording(st, identifier, identityKey) ==
    LET key == Str(STORE_PREFIX.IDENTITY \o JSToString(identifier))
        st1 == remove(st, key).st
        trusted == get(st1, key, Undefined).res
    IN  IF ~validateKey(identifier) THEN Throw(st1, InvalidArgument)
        ELSE IF ~Truthy(trusted) THEN Ok(put(st1, key, identityKey).st, True)
        ELSE IF ~isArrayBuffer(trusted) THEN Throw(st1, CorruptState)
        ELSE Ok(st1, Bool(arrayBufferToString(identityKey)
                            = arrayBufferToString(trusted)))

isTrustedIdentity(st, identifier, identityKey) ==
    LET key == Str(STORE_PREFIX.IDENTITY \o JSToString(identifier))
        st1 == remove(st, key).st
        trusted == get(st1, key, Undefined).res
    IN  IF ~validateKey(identifier) THEN Throw(st1, InvalidArgument)
        ELSE IF ~Truthy(trusted) THEN Ok(st1, True)
        ELSE IF ~isArrayBuffer(trusted) THEN Throw(st1, CorruptState)
        ELSE Ok(st1, Bool(arrayBufferToString(identityKey)
                            = arrayBufferToString(trusted)))

loadPreKey(st, keyId) ==
    LET res == get(st, Str(STORE_PREFIX.PREKEY \o JSToString(keyId)), Undefined).res
    IN  IF ~Truthy(res) THEN Ok(st, Undefined)
        ELSE IF isKeyPairType(res) THEN Ok(st, res)
        ELSE Throw(st, CorruptState)

loadSession(st, identifier) ==
    LET rec == get(st, Str(STORE_PREFIX.SESSION \o JSToString(identifier)),
                   Undefined).res
    IN  IF TypeOf(rec) = "string" \/ TypeOf(rec) = "undefined" THEN Ok(st, rec)
        ELSE Throw(st, CorruptState)

loadSignedPreKey(st, keyId) ==
    LET res == get(st, Str(STORE_PREFIX.SIGNED_KEY \o JSToString(keyId)),
                   Undefined).res
    IN  IF ~Truthy(res) THEN Ok(st, Undefined)
        ELSE IF isKeyPairType(res) THEN Ok(st, res)
        ELSE Throw(st, CorruptState)

removePreKey(st, keyId) ==
    remove(st, Str(STORE_PREFIX.PREKEY \o JSToString(keyId)))

saveIdentity(st, identifier, identityKey) ==
    IF ~validateKeyValue(identifier, identityKey) THEN Throw(st, InvalidArgument)
    ELSE IF ~AddressMatches(JSToString(identifier)) THEN Throw(st, InvalidAddress)
    ELSE
      LET key == Str(STORE_PREFIX.IDENTITY \o getName(JSToString(identifier)))
          existing == get(st, key, Undefined).res
      IN  IF Truthy(existing) /\ ~isArrayBuffer(existing)
          THEN Throw(st, CorruptState)
          ELSE Ok(put(st, key, identityKey).st,
                  Bool(Truthy(existing)
                       /\ arrayBufferToString(identityKey)
                            # arrayBufferToString(existing)))

\* storeSession as it would be if it keyed the record by the address name
storeSession_ByName(st, identifier, record) ==
    put(st, Str(STORE_PREFIX.SESSION \o getName(JSToString(identifier))), record)

storeSession(st, identifier, record) ==
    put(st, Str(STORE_PREFIX.SESSION \o JSToString(identifier)), record)

loadIdentityKey(st, identifier) ==
    IF ~validateKey(identifier) THEN Throw(st, InvalidArgument)
    ELSE
      LET key == get(st, Str(STORE_PREFIX.IDENTITY \o JSToString(identifier)),
                     Undefined).res
      IN  IF ~Truthy(key) THEN Ok(st, Undefined)
          ELSE IF isArrayBuffer(key) THEN Ok(st, key)
          ELSE Throw(st, CorruptState)

\* storePreKey as it would be if it wrote under the signed pre-key prefix
storePreKey_SignedPrefix(st, keyId, keyPair) ==
    put(st, Str(STORE_PREFIX.SIGNED_KEY \o JSToString(keyId)), keyPair)

storePreKey(st, keyId, keyPair) ==
    put(st, Str(STORE_PREFIX.PREKEY \o JSToString(keyId)), keyPair)

storeSignedPreKey(st, keyId, keyPair) ==
    put(st, Str(STORE_PREFIX.SIGNED_KEY \o JSToString(keyId)), keyPair)

removeSignedPreKey(st, keyId) ==
    remove(st, Str(STORE_PREFIX.SIGNED_KEY \o JSToString(keyId)))

removeSession(st, identifier) ==
    remove(st, Str(STORE_PREFIX.SESSION \o JSToString(identifier)))

removeAllSessions(st, identifier) ==
    LET sessionPrefix == STORE_PREFIX.SESSION \o JSToString(identifier)
    IN  Ok([k \in {x \in DOMAIN st : ~StartsWith(x, sessionPrefix)} |-> st[k]],
           Undefined)

(***************************************************************************)
(* The callers' inputs.                                                    *)
(***************************************************************************)
bob == <<"b", "o", "b">>
bob1 == <<"b", "o", "b", ".", "1">>
bob2 == <<"b", "o", "b", ".", "2">>
bobby1 == <<"b", "o", "b", "b", "y", ".", "1">>
dot1 == <<".", "1">>
null1 == <<"n", "u", "l", "l", ".", "1">>

KeyA == Buf(<<1, 2>>)
KeyB == Buf(<<1, 3>>)
PairA == KeyPair(<<1, 2, 3>>, <<4, 5, 6>>)
PairB == KeyPair(<<7>>, <<8>>)
RecA == Str(<<"r">>)
RecB == Str(<<"q">>)

\* peer identifiers handed to the identity operations: device addresses of
\* one name, the bare name, the empty name (as an address and bare), null,
\* and a device address of the name "null"
PeerIds ==
    {Str(bob1), Str(bob2), Str(bob), Str(dot1), Str(<<>>), Null, Str(null1)}
\* peer addresses handed to the session operations, and the roots handed to
\* removeAllSessions
SessionIds == {Str(bob1), Str(bob2), Str(bobby1)}
RootIds == {Str(bob), Str(bob1)}
IdentityKeys == {KeyA, KeyB}
KeyIds == {Num(1), Num(12)}
KeyPairs == {PairA, PairB}
SessionRecords == {RecA, RecB}

\* keys and values handed to the primitives get, put and remove
PrimKeys ==
    {Null,
     Str(STORE_PREFIX.IDENTITY), Str(REGISTRATION_ID),
     Str(STORE_PREFIX.IDENTITY \o bob),
     Str(STORE_PREFIX.PREKEY \o <<"1">>),
     Str(STORE_PREFIX.SESSION \o bob1)}
PrimValues == {Null, Num(0), RecA, KeyA, PairA, PreKeyObj(1)}
Defaults == {Undefined, Num(7)}

\* the most entries the store holds in the model
MaxEntries == 2

(***************************************************************************)
(* State: the store's map (this._store) and the call a caller has made on  *)
(* the store and not yet resumed from, with its arguments and its outcome. *)
(* The store's methods run to completion, so a call is one step; the       *)
(* caller then takes the outcome and is free to make the next call.        *)
(***************************************************************************)
VARIABLES store, last

(***************************************************************************)
(* State of the codec: the Uint8Array handed to uint8ArrayToString and the *)
(* string it has returned, once it has.                                    *)
(***************************************************************************)
VARIABLES arr, result

codecVars == <<arr, result>>

(***************************************************************************)
(* State of a message decoding (decodeMessage of src/index-v1.ts, decode   *)
(* of src/index-v3.ts): where the call stands, the message, the cipher     *)
(* operations it has invoked, how the awaited one settled, and the result  *)
(* or the error the caller gets.                                           *)
(***************************************************************************)
VARIABLE decoding

(***************************************************************************)
(* State of the managers (SignalProtocolManager of src/index-v1.ts and     *)
(* src/index-v3.ts): the map of every store instance, and for each party   *)
(* where its createSession call stands.                                    *)
(***************************************************************************)
VARIABLES stores, session

partyVars == <<stores, session>>

(***************************************************************************)
(* State of concurrent callers of one store: for each task the call it     *)
(* makes, how far the call has run, what it has read and its outcome; and  *)
(* the map as it was when the tasks were started.                          *)
(***************************************************************************)
VARIABLES tasks, initialStore

taskVars == <<tasks, initialStore>>

vars == <<store, last, codecVars, decoding, partyVars, taskVars>>

\* what a step of the store leaves alone
outsideStore == <<codecVars, decoding, partyVars, taskVars>>

\* no conversion has been asked for
NotCalled == [done |-> FALSE, str |-> <<>>]

NoCodec ==
    /\ arr = <<>>
    /\ result = NotCalled

\* no message is being decoded
NotDecoding ==
    [pc |-> "idle", facade |-> "none",
     message |-> [type |-> Undefined, body |-> <<>>],
     invoked |-> <<>>,
     settled |-> [ok |-> TRUE, value |-> <<>>, error |-> NoError],
     res |-> <<>>, err |-> NoError]

NoDecode == decoding = NotDecoding

\* no manager has been constructed
NoParties ==
    /\ stores = <<>>
    /\ session = <<>>

\* no task has been started
NoTasks ==
    /\ tasks = <<>>
    /\ initialStore = <<>>

Idle ==
    [op |-> "none", a1 |-> Undefined, a2 |-> Undefined,
     res |-> Undefined, err |-> NoError]

Init ==
    /\ store = <<>>
    /\ last = Idle
    /\ NoCodec
    /\ NoDecode
    /\ NoParties
    /\ NoTasks

\* a caller is free to call, and the outcome r stays within the model's bound
Ready(r) ==
    /\ last = Idle
    /\ Cardinality(DOMAIN r.st) <= MaxEntries

\* the record of a call of method op with arguments a1, a2 and outcome r
Outcome(op, a1, a2, r) ==
    [op |-> op, a1 |-> a1, a2 |-> a2, res |-> r.res, err |-> r.err]

\* the caller takes the outcome of its call (the awaited promise settles)
Resume ==
    /\ last # Idle
    /\ last' = Idle
    /\ UNCHANGED store
    /\ UNCHANGED outsideStore

Call_get ==
    \E key \in PrimKeys, d \in Defaults :
        LET r == get(store, key, d)
        IN  /\ Ready(r)
            /\ store' = r.st
            /\ last' = Outcome("get", key, d, r)
            /\ UNCHANGED outsideStore

Call_remove ==
    \E key \in PrimKeys :
        LET r == remove(store, key)
        IN  /\ Ready(r)
            /\ store' = r.st
            /\ last' = Outcome("remove", key, Undefined, r)
            /\ UNCHANGED outsideStore

Call_put ==
    \E key \in PrimKeys, value \in PrimValues :
        LET r == put(store, key, value)
        IN  /\ Ready(r)
            /\ store' = r.st
            /\ last' = Outcome("put", key, value, r)
            /\ UNCHANGED outsideStore

Call_getIdentityKeyPair ==
    LET r == getIdentityKeyPair(store)
    IN  /\ Ready(r)
        /\ store' = r.st
        /\ last' = Outcome("getIdentityKeyPair", Undefined, Undefined, r)
        /\ UNCHANGED outsideStore

Call_getLocalRegistrationId ==
    LET r == getLocalRegistrationId(store)
    IN  /\ Ready(r)
        /\ store' = r.st
        /\ last' = Outcome("getLocalRegistrationId", Undefined, Undefined, r)
        /\ UNCHANGED outsideStore

Call_isTrustedIdentity ==
    \E id \in PeerIds, k \in IdentityKeys :
        LET r == isTrustedIdentity(store, id, k)
        IN  /\ Ready(r)
            /\ store' = r.st
            /\ last' = Outcome("isTrustedIdentity", id, k, r)
            /\ UNCHANGED outsideStore

Call_loadPreKey ==
    \E id \in KeyIds :
        LET r == loadPreKey(store, id)
        IN  /\ Ready(r)
            /\ store' = r.st
            /\ last' = Outcome("loadPreKey", id, Undefined, r)
            /\ UNCHANGED outsideStore

Call_loadSession ==
    \E id \in SessionIds :
        LET r == loadSession(store, id)
        IN  /\ Ready(r)
            /\ store' = r.st
            /\ last' = Outcome("loadSession", id, Undefined, r)
            /\ UNCHANGED outsideStore

Call_loadSignedPreKey ==
    \E id \in KeyIds :
        LET r == loadSignedPreKey(store, id)
        IN  /\ Ready(r)
            /\ store' = r.st
            /\ last' = Outcome("loadSignedPreKey", id, Undefined, r)
            /\ UNCHANGED outsideStore

Call_removePreKey ==
    \E id \in KeyIds :
        LET r == removePreKey(store, id)
        IN  /\ Ready(r)
            /\ store' = r.st
            /\ last' = Outcome("removePreKey", id, Undefined, r)
            /\ UNCHANGED outsideStore

Call_saveIdentity ==
    \E id \in PeerIds, k \in IdentityKeys \cup {Null} :
        LET r == saveIdentity(store, id, k)
        IN  /\ Ready(r)
            /\ store' = r.st
            /\ last' = Outcome("saveIdentity", id, k, r)
            /\ UNCHANGED outsideStore

Call_storeSession ==
    \E id \in SessionIds, rec \in SessionRecords :
        LET r == storeSession(store, id, rec)
        IN  /\ Ready(r)
            /\ store' = r.st
            /\ last' = Outcome("storeSession", id, rec, r)
            /\ UNCHANGED outsideStore

Call_loadIdentityKey ==
    \E id \in PeerIds :
        LET r == loadIdentityKey(store, id)
        IN  /\ Ready(r)
            /\ store' = r.st
            /\ last' = Outcome("loadIdentityKey", id, Undefined, r)
            /\ UNCHANGED outsideStore

Call_storePreKey ==
    \E id \in KeyIds, kp \in KeyPairs :
        LET r == storePreKey(store, id, kp)
        IN  /\ Ready(r)
            /\ store' = r.st
            /\ last' = Outcome("storePreKey", id, kp, r)
            /\ UNCHANGED outsideStore

Call_storeSignedPreKey ==
    \E id \in KeyIds, kp \in KeyPairs :
        LET r == storeSignedPreKey(store, id, kp)
        IN  /\ Ready(r)
            /\ store' = r.st
            /\ last' = Outcome("storeSignedPreKey", id, kp, r)
            /\ UNCHANGED outsideStore

Call_removeSignedPreKey ==
    \E id \in KeyIds :
        LET r == removeSignedPreKey(store, id)
        IN  /\ Ready(r)
            /\ store' = r.st
            /\ last' = Outcome("removeSignedPreKey", id, Undefined, r)
            /\ UNCHANGED outsideStore

Call_removeSession ==
    \E id \in SessionIds :
        LET r == removeSession(store, id)
        IN  /\ Ready(r)
            /\ store' = r.st
            /\ last' = Outcome("removeSession", id, Undefined, r)
            /\ UNCHANGED outsideStore

Call_removeAllSessions ==
    \E id \in RootIds :
        LET r == removeAllSessions(store, id)
        IN  /\ Ready(r)
            /\ store' = r.st
            /\ last' = Outcome("removeAllSessions", id, Undefined, r)
            /\ UNCHANGED outsideStore

Next ==
    \/ Call_get
    \/ Call_remove
    \/ Call_put
    \/ Call_getIdentityKeyPair
    \/ Call_getLocalRegistrationId
    \/ Call_isTrustedIdentity
    \/ Call_loadPreKey
    \/ Call_loadSession
    \/ Call_loadSignedPreKey
    \/ Call_removePreKey
    \/ Call_saveIdentity
    \/ Call_storeSession
    \/ Call_loadIdentityKey
    \/ Call_storePreKey
    \/ Call_storeSignedPreKey
    \/ Call_removeSignedPreKey
    \/ Call_removeSession
    \/ Call_removeAllSessions
    \/ Resume

Spec == Init /\ [][Next]_vars

(***************************************************************************)
(* Vocabulary of the properties.                                           *)
(***************************************************************************)
IdentityKeyOf(id) == STORE_PREFIX.IDENTITY \o JSToString(id)
SessionKeyOf(id) == STORE_PREFIX.SESSION \o JSToString(id)
PreKeyOf(id) == STORE_PREFIX.PREKEY \o JSToString(id)
SignedKeyOf(id) == STORE_PREFIX.SIGNED_KEY \o JSToString(id)

IsString(v) == v.t = "string"
Returned(op) == last.op = op /\ last.err = NoError
\* what a caller sees of an outcome
Seen(r) == <<r.res, r.err>>

\* C1: isTrustedIdentity never mutates the store: the whole map is the same
\* before and after every call of it.
C1_TrustCheckLeavesStore ==
    [][last'.op = "isTrustedIdentity" => store' = store]_vars

\* a trust check of the name bob has returned
C1_Witness ==
    /\ last.op = "isTrustedIdentity"
    /\ last.a1 = Str(bob)
    /\ last.err = NoError

\* C2: identity pinning: once saveIdentity(peer, k) has returned, a trust
\* check of peer returns true for k and false for every other key, also
\* after another trust check of peer was made in between.
C2_IdentityPinning ==
    Returned("saveIdentity") =>
        \A k \in IdentityKeys, k0 \in IdentityKeys :
            LET direct == isTrustedIdentity(store, last.a1, k)
                between == isTrustedIdentity(store, last.a1, k0).st
                later == isTrustedIdentity(between, last.a1, k)
            IN  /\ direct.res = Bool(k.a = last.a2.a)
                /\ later.res = Bool(k.a = last.a2.a)

\* C3: replacement detection: after saveIdentity(peer, k1) a saveIdentity of
\* peer with a different key returns true and a third one with that same
\* key returns false, with or without a trust check of the peer (by its
\* address or by its address name) between the saves.
C3_ReplacementDetection ==
    Returned("saveIdentity") =>
        \A k2 \in IdentityKeys, kc \in IdentityKeys,
           c \in {last.a1, Str(getName(last.a1.s))} :
            LET checked == isTrustedIdentity(store, c, kc).st
                plain2 == saveIdentity(store, last.a1, k2)
                second == saveIdentity(checked, last.a1, k2)
                third == saveIdentity(second.st, last.a1, k2)
            IN  /\ plain2.res = Bool(k2.a # last.a2.a)
                /\ second.res = Bool(k2.a # last.a2.a)
                /\ third.res = False

\* no trusted identity is recorded for peer id: the store holds nothing
\* under the key the trust check reads nor under the key saveIdentity writes
NoRecordedIdentity(st, id) ==
    /\ IdentityKeyOf(id) \notin DOMAIN st
    /\ AddressMatches(id.s) =>
         (STORE_PREFIX.IDENTITY \o getName(id.s)) \notin DOMAIN st

\* C4: trust on first use: for a peer with no recorded trusted identity
\* key, isTrustedIdentity returns true whatever the key and persists
\* nothing: the store is unchanged, a following loadIdentityKey of the peer
\* returns absent and a following saveIdentity of the peer (a device
\* address) returns false.
C4_TrustOnFirstUse ==
    [][(/\ last'.op = "isTrustedIdentity"
        /\ IsString(last'.a1)
        /\ NoRecordedIdentity(store, last'.a1))
       => /\ last'.err = NoError
          /\ last'.res = True
          /\ store' = store
          /\ Seen(loadIdentityKey(store', last'.a1)) = <<Undefined, NoError>>
          /\ AddressMatches(last'.a1.s) =>
               \A key2 \in IdentityKeys :
                   Seen(saveIdentity(store', last'.a1, key2)) = <<False, NoError>>
      ]_vars

\* a first-use trust check of a device address has returned true while the
\* store holds other entries
C4_Witness ==
    /\ Returned("isTrustedIdentity")
    /\ last.a1 = Str(bob1)
    /\ last.res = True
    /\ NoRecordedIdentity(store, last.a1)
    /\ Cardinality(DOMAIN store) = 2

\* C5: identity save and load use one key: after saveIdentity(peer, k),
\* loadIdentityKey(peer) returns k, and when no key was recorded before the
\* save returns false and records the key.
C5_SaveThenLoad ==
    [][(last'.op = "saveIdentity" /\ last'.err = NoError)
       => /\ Seen(loadIdentityKey(store', last'.a1)) = <<last'.a2, NoError>>
          /\ NoRecordedIdentity(store, last'.a1) => last'.res = False
      ]_vars

\* C6: one trusted-identity entry per peer address: saveIdentity(a, k)
\* changes neither the recorded key nor the outcome of saveIdentity,
\* isTrustedIdentity or loadIdentityKey for any other peer address b.
C6_OneEntryPerPeer ==
    [][(last'.op = "saveIdentity")
       => \A b \in {Str(bob1), Str(bob2), Str(dot1)} \ {last'.a1} :
            /\ Seen(loadIdentityKey(store', b)) = Seen(loadIdentityKey(store, b))
            /\ \A k \in IdentityKeys :
                 /\ Seen(isTrustedIdentity(store', b, k))
                      = Seen(isTrustedIdentity(store, b, k))
                 /\ Seen(saveIdentity(store', b, k))
                      = Seen(saveIdentity(store, b, k))
      ]_vars

\* the operations of each record kind
IdentityOps == {"saveIdentity", "isTrustedIdentity"}
PreKeyOps == {"storePreKey", "removePreKey"}
SignedPreKeyOps == {"storeSignedPreKey", "removeSignedPreKey"}
SessionOps == {"storeSession", "removeSession", "removeAllSessions"}

\* what the typed reads of each kind return on store st
ReadsOwnIdentity(st) ==
    <<Seen(getIdentityKeyPair(st)), Seen(getLocalRegistrationId(st))>>
ReadsPreKeys(st) == [id \in KeyIds |-> Seen(loadPreKey(st, id))]
ReadsSignedPreKeys(st) == [id \in KeyIds |-> Seen(loadSignedPreKey(st, id))]
ReadsSessions(st) == [id \in SessionIds |-> Seen(loadSession(st, id))]
ReadsTrusted(st) ==
    [id \in PeerIds \ {Null} |-> Seen(loadIdentityKey(st, id))]

\* C7: namespace isolation: no typed operation on one record kind changes or
\* exposes an entry of another kind; saveIdentity and isTrustedIdentity
\* leave getIdentityKeyPair() as it was for every peer identifier.
C7_NamespaceIsolation ==
    [][/\ last'.op \in IdentityOps =>
            /\ ReadsOwnIdentity(store') = ReadsOwnIdentity(store)
            /\ ReadsPreKeys(store') = ReadsPreKeys(store)
            /\ ReadsSignedPreKeys(store') = ReadsSignedPreKeys(store)
            /\ ReadsSessions(store') = ReadsSessions(store)
       /\ last'.op \in PreKeyOps =>
            /\ ReadsOwnIdentity(store') = ReadsOwnIdentity(store)
            /\ ReadsSignedPreKeys(store') = ReadsSignedPreKeys(store)
            /\ ReadsSessions(store') = ReadsSessions(store)
            /\ ReadsTrusted(store') = ReadsTrusted(store)
       /\ last'.op \in SignedPreKeyOps =>
            /\ ReadsOwnIdentity(store') = ReadsOwnIdentity(store)
            /\ ReadsPreKeys(store') = ReadsPreKeys(store)
            /\ ReadsSessions(store') = ReadsSessions(store)
            /\ ReadsTrusted(store') = ReadsTrusted(store)
       /\ last'.op \in SessionOps =>
            /\ ReadsOwnIdentity(store') = ReadsOwnIdentity(store)
            /\ ReadsPreKeys(store') = ReadsPreKeys(store)
            /\ ReadsSignedPreKeys(store') = ReadsSignedPreKeys(store)
            /\ ReadsTrusted(store') = ReadsTrusted(store)
      ]_vars

\* key k is a session entry of the peer root or of one of its devices
SessionOfRoot(k, root) ==
    \/ k = SessionKeyOf(root)
    \/ StartsWith(k, SessionKeyOf(root) \o <<".">>)

\* C8: removeAllSessions(peerRoot) removes the session entries of peerRoot
\* and leaves every other entry untouched, the sessions of a peer whose name
\* merely starts with peerRoot ("bobby.1" for "bob") included.
C8_RemoveAllSessionsFrame ==
    [][(last'.op = "removeAllSessions")
       => /\ DOMAIN store' =
               {k \in DOMAIN store : ~SessionOfRoot(k, last'.a1)}
          /\ \A k \in DOMAIN store' : store'[k] = store[k]
      ]_vars

\* a value is stored under key k that fails the shape check Good
BadShapeAt(st, k, Good(_)) == k \in DOMAIN st /\ ~Good(st[k])

IsNumber(v) == TypeOf(v) = "number"

\* C9: every typed read fails with CorruptState when the value stored under
\* its key does not have the expected shape, whatever value put accepted.
C9_TypedReadsRejectBadShapes ==
    [][/\ (last'.op = "getIdentityKeyPair"
           /\ BadShapeAt(store, STORE_PREFIX.IDENTITY, isKeyPairType))
          => last'.err = CorruptState
       /\ (last'.op = "getLocalRegistrationId"
           /\ BadShapeAt(store, REGISTRATION_ID, IsNumber))
          => last'.err = CorruptState
       /\ (last'.op = "loadPreKey"
           /\ BadShapeAt(store, PreKeyOf(last'.a1), isKeyPairType))
          => last'.err = CorruptState
       /\ (last'.op = "loadSignedPreKey"
           /\ BadShapeAt(store, SignedKeyOf(last'.a1), isKeyPairType))
          => last'.err = CorruptState
       /\ (last'.op = "loadSession"
           /\ BadShapeAt(store, SessionKeyOf(last'.a1), IsString))
          => last'.err = CorruptState
       /\ (last'.op = "loadIdentityKey" /\ IsString(last'.a1)
           /\ BadShapeAt(store, IdentityKeyOf(last'.a1), isArrayBuffer))
          => last'.err = CorruptState
       /\ (last'.op = "isTrustedIdentity" /\ IsString(last'.a1)
           /\ BadShapeAt(store, IdentityKeyOf(last'.a1), isArrayBuffer))
          => last'.err = CorruptState
      ]_vars

\* C10: the primitives: get fails with InvalidArgument on a null key and
\* else returns the stored value or the default; put fails with
\* InvalidArgument on a null key or value and else maps the key to the
\* value; remove fails only on a null key and else leaves the key absent;
\* a primitive that fails leaves the store unchanged, and no primitive
\* touches another key.
C10_Primitives ==
    [][/\ last'.op = "get" =>
            /\ store' = store
            /\ IF IsNullish(last'.a1)
               THEN last'.err = InvalidArgument
               ELSE /\ last'.err = NoError
                    /\ last'.res = IF last'.a1.s \in DOMAIN store
                                   THEN store[last'.a1.s] ELSE last'.a2
       /\ last'.op = "put" =>
            IF IsNullish(last'.a1) \/ IsNullish(last'.a2)
            THEN last'.err = InvalidArgument /\ store' = store
            ELSE /\ last'.err = NoError
                 /\ DOMAIN store' = DOMAIN store \cup {last'.a1.s}
                 /\ store'[last'.a1.s] = last'.a2
                 /\ \A k \in DOMAIN store \ {last'.a1.s} : store'[k] = store[k]
       /\ last'.op = "remove" =>
            IF IsNullish(last'.a1)
            THEN last'.err = InvalidArgument /\ store' = store
            ELSE /\ last'.err = NoError
                 /\ DOMAIN store' = DOMAIN store \ {last'.a1.s}
                 /\ \A k \in DOMAIN store' : store'[k] = store[k]
      ]_vars

\* a put has failed on a null value and left a store of two entries
C10_Witness ==
    /\ last.op = "put"
    /\ last.err = InvalidArgument
    /\ ~IsNullish(last.a1)
    /\ Cardinality(DOMAIN store) = 2

\* the primitives, which address a raw key rather than a typed record
Primitives == {"get", "put", "remove"}

\* C11: pre-key and signed pre-key round trip, last write wins: under the
\* typed operations loadPreKey(id) returns the key pair last passed to
\* storePreKey(id, .) unless removePreKey(id) followed, and absent
\* otherwise; an operation on another id, or of another kind, leaves the
\* result as it was.  The same for the signed pre-keys.
C11_PreKeyRoundTrip ==
    /\ \A id \in KeyIds :
         /\ Seen(loadPreKey(<<>>, id)) = <<Undefined, NoError>>
         /\ Seen(loadSignedPreKey(<<>>, id)) = <<Undefined, NoError>>
    /\ [][last'.op \notin Primitives =>
            \A id \in KeyIds :
              /\ Seen(loadPreKey(store', id)) =
                   IF last'.op = "storePreKey" /\ last'.a1 = id
                   THEN <<last'.a2, NoError>>
                   ELSE IF last'.op = "removePreKey" /\ last'.a1 = id
                   THEN <<Undefined, NoError>>
                   ELSE Seen(loadPreKey(store, id))
              /\ Seen(loadSignedPreKey(store', id)) =
                   IF last'.op = "storeSignedPreKey" /\ last'.a1 = id
                   THEN <<last'.a2, NoError>>
                   ELSE IF last'.op = "removeSignedPreKey" /\ last'.a1 = id
                   THEN <<Undefined, NoError>>
                   ELSE Seen(loadSignedPreKey(store, id))
         ]_vars

\* a pre-key has been stored over the other id's pre-key being present
C11_Witness ==
    /\ Returned("storePreKey")
    /\ last.a1 = Num(1)
    /\ PreKeyOf(Num(12)) \in DOMAIN store
    /\ Seen(loadPreKey(store, Num(1))) = <<last.a2, NoError>>

\* removeAllSessions(root) matches the session of peer id: the session key
\* of id starts with the session prefix of root
MatchesRoot(id, root) == StartsWith(SessionKeyOf(id), SessionKeyOf(root))

\* C12: session round trip per peer: loadSession(peer) returns the record
\* last passed to storeSession(peer, .) unless removeSession(peer) or a
\* matching removeAllSessions followed, and absent otherwise; a store or
\* remove for another peer address, and every identity operation, leaves
\* the result as it was.
C12_SessionRoundTrip ==
    /\ \A id \in SessionIds : Seen(loadSession(<<>>, id)) = <<Undefined, NoError>>
    /\ [][last'.op \notin Primitives =>
            \A id \in SessionIds :
              Seen(loadSession(store', id)) =
                IF last'.op = "storeSession" /\ last'.a1 = id
                THEN <<last'.a2, NoError>>
                ELSE IF last'.op = "removeSession" /\ last'.a1 = id
                THEN <<Undefined, NoError>>
                ELSE IF last'.op = "removeAllSessions" /\ MatchesRoot(id, last'.a1)
                THEN <<Undefined, NoError>>
                ELSE Seen(loadSession(store, id))
         ]_vars

\* a session has been stored for bob.1 while bob.2 holds one
C12_Witness ==
    /\ Returned("storeSession")
    /\ last.a1 = Str(bob1)
    /\ SessionKeyOf(Str(bob2)) \in DOMAIN store
    /\ Seen(loadSession(store, Str(bob1))) = <<last.a2, NoError>>

\* C13: end-to-end scenario: on an empty store getIdentityKeyPair() returns
\* the absent marker; after a put of an identity key pair under the identity
\* key getIdentityKeyPair() returns exactly that pair; removePreKey(id) on
\* an id with no stored pre-key raises no error and leaves the store as it
\* was.
C13_Scenario ==
    /\ Seen(getIdentityKeyPair(<<>>)) = <<Undefined, NoError>>
    /\ [][/\ (/\ last'.op = "put"
              /\ last'.a1 = Str(STORE_PREFIX.IDENTITY)
              /\ isKeyPairType(last'.a2))
             => Seen(getIdentityKeyPair(store')) = <<last'.a2, NoError>>
          /\ (/\ last'.op = "removePreKey"
              /\ PreKeyOf(last'.a1) \notin DOMAIN store)
             => (last'.err = NoError /\ store' = store)
         ]_vars

\* removePreKey has returned for an id with no pre-key, in a store where
\* the identity key pair put earlier is read back
C13_Witness ==
    /\ Returned("removePreKey")
    /\ PreKeyOf(last.a1) \notin DOMAIN store
    /\ Seen(getIdentityKeyPair(store)) = <<PairA, NoError>>

\* the explicit removals and the explicit writes
Removers ==
    {"remove", "removePreKey", "removeSignedPreKey", "removeSession",
     "removeAllSessions"}
Writers ==
    {"put", "storePreKey", "storeSignedPreKey", "storeSession", "saveIdentity"}

\* C14: the store is accumulate-only: an entry goes away only in an explicit
\* removal, changes its value only in an explicit put/store*/saveIdentity,
\* and an entry appears only in an explicit put/store*/saveIdentity.
C14_AccumulateOnly ==
    [][/\ \A k \in DOMAIN store :
            /\ k \notin DOMAIN store' => last'.op \in Removers
            /\ (k \in DOMAIN store' /\ store'[k] # store[k])
                 => last'.op \in Writers
       /\ \A k \in DOMAIN store' \ DOMAIN store : last'.op \in Writers
      ]_vars

\* the part of C14 that the trust check does not break: outside
\* isTrustedIdentity the store is accumulate-only
C14_AccumulateOnlyButTrustCheck ==
    [][last'.op # "isTrustedIdentity" =>
         /\ \A k \in DOMAIN store :
              /\ k \notin DOMAIN store' => last'.op \in Removers
              /\ (k \in DOMAIN store' /\ store'[k] # store[k])
                   => last'.op \in Writers
         /\ \A k \in DOMAIN store' \ DOMAIN store : last'.op \in Writers
      ]_vars

\* the entry saveIdentity reads as the existing one for an address
ExistingFor(st, id) ==
    get(st, Str(STORE_PREFIX.IDENTITY \o getName(JSToString(id))), Undefined).res

\* C20: saveIdentity fails without writing: a null identifier or a null key
\* raises InvalidArgument, an existing entry for the peer that is present
\* but not a byte buffer raises CorruptState, and in each failing case the
\* store is unchanged.
C20_SaveIdentityFailsClean ==
    [][last'.op = "saveIdentity" =>
         /\ (IsNullish(last'.a1) \/ IsNullish(last'.a2))
              => (last'.err = InvalidArgument /\ store' = store)
         /\ (/\ ~IsNullish(last'.a1)
             /\ ~IsNullish(last'.a2)
             /\ AddressMatches(JSToString(last'.a1))
             /\ IdentityKeyOf(Str(getName(JSToString(last'.a1)))) \in DOMAIN store
             /\ ~isArrayBuffer(ExistingFor(store, last'.a1)))
              => (last'.err = CorruptState /\ store' = store)
         /\ last'.err # NoError => store' = store
      ]_vars

\* the part of C20 that holds: as C20 with the existing entry truthy
C20_TruthyBadEntryFails ==
    [][last'.op = "saveIdentity" =>
         /\ (IsNullish(last'.a1) \/ IsNullish(last'.a2))
              => (last'.err = InvalidArgument /\ store' = store)
         /\ (/\ ~IsNullish(last'.a1)
             /\ ~IsNullish(last'.a2)
             /\ AddressMatches(JSToString(last'.a1))
             /\ Truthy(ExistingFor(store, last'.a1))
             /\ ~isArrayBuffer(ExistingFor(store, last'.a1)))
              => (last'.err = CorruptState /\ store' = store)
         /\ last'.err # NoError => store' = store
      ]_vars

(***************************************************************************)
(* The codec on its own: uint8ArrayToString and arrayBufferToString        *)
(* (src/store.ts lines 239-255) applied to byte arrays of the lengths at   *)
(* and around the chunk boundary.                                          *)
(***************************************************************************)
SeveralChunks == 5000

Lengths == {0, 1, chunkSize - 1, chunkSize, SeveralChunks}

Starts == {0, 200, 255}
Steps == {0, 1, 7, 13}

\* n bytes: start, start + step, ... each taken modulo 256 as a Uint8Array does
Ramp(n, start, step) == [i \in 1..n |-> (start + (i - 1) * step) % 256]

\* the array a with its last byte complemented
LastFlipped(a) ==
    [i \in 1..Len(a) |-> IF i = Len(a) THEN 255 - a[i] ELSE a[i]]

ByteArrays ==
    LET ramps == {Ramp(n, c, m) : n \in Lengths, c \in Starts, m \in Steps}
    IN  ramps \cup {LastFlipped(a) : a \in ramps}

\* what a step of the codec leaves alone
outsideCodec == <<store, last, decoding, partyVars, taskVars>>

CodecInit ==
    /\ store = <<>>
    /\ last = Idle
    /\ arr \in ByteArrays
    /\ result = NotCalled
    /\ NoDecode
    /\ NoParties
    /\ NoTasks

Call_uint8ArrayToString ==
    /\ ~result.done
    /\ result' = [done |-> TRUE, str |-> uint8ArrayToString(arr)]
    /\ UNCHANGED arr
    /\ UNCHANGED outsideCodec

Call_arrayBufferToString ==
    /\ ~result.done
    /\ result' = [done |-> TRUE, str |-> arrayBufferToString(Buf(arr))]
    /\ UNCHANGED arr
    /\ UNCHANGED outsideCodec

CodecNext ==
    \/ Call_uint8ArrayToString
    \/ Call_arrayBufferToString

CodecSpec == CodecInit /\ [][CodecNext]_vars

\* the bytes read back from a string: the low byte of each character code
charCodes(s) == [i \in 1..Len(s) |-> s[i] % 256]

\* C15: the byte-to-string conversion is a lossless 1:1 mapping whatever
\* the chunking: for arrays of length 0, 1, chunkSize - 1, chunkSize and
\* several chunks the string has the array's length, its i-th character
\* code is the i-th byte, reading the bytes back gives the array, and
\* another array converts to the same string only if it is the same array.
C15_CodecLossless ==
    result.done =>
        /\ Len(result.str) = Len(arr)
        /\ \A i \in 1..Len(arr) : result.str[i] = arr[i]
        /\ charCodes(result.str) = arr
        /\ \A other \in ByteArrays :
             (uint8ArrayToString(other) = result.str) <=> (other = arr)

\* an array of several chunks, not a whole number of them, has been converted
C15_Witness ==
    /\ result.done
    /\ Len(arr) = SeveralChunks
    /\ SeveralChunks % chunkSize # 0
    /\ arr[SeveralChunks] # arr[1]

(***************************************************************************)
(* Message decoding: decodeMessage (src/index-v1.ts lines 149-170) and     *)
(* decode (src/index-v3.ts lines 143-164).  The session cipher is a        *)
(* collaborator: its decrypt operations resolve with some plaintext or     *)
(* reject with some error.                                                 *)
(***************************************************************************)
UnsupportedMessageType == "UnsupportedMessageType"
CipherErrors == {"DecryptFailed", "NoSession"}

NoCipherOp == "none"

\* a === b on numbers and strings: same type and same value
StrictEquals(a, b) == a.t = b.t /\ a.n = b.n /\ a.s = b.s

\* the branch as it would be if every type but 3 went to the ordinary
\* decrypt
dispatch_DefaultWhisper(type) ==
    IF StrictEquals(type, Num(3)) THEN "decryptPreKeyWhisperMessage"
    ELSE "decryptWhisperMessage"

\* the branch on message.type: the cipher operation to invoke, if any
dispatch(type) ==
    IF StrictEquals(type, Num(3)) THEN "decryptPreKeyWhisperMessage"
    ELSE IF StrictEquals(type, Num(1)) THEN "decryptWhisperMessage"
    ELSE NoCipherOp

\* the same branch as src/index-v3.ts writes it in SignalMessageManager.decode
dispatchV3(type) ==
    IF StrictEquals(type, Num(3)) THEN "decryptPreKeyWhisperMessage"
    ELSE IF StrictEquals(type, Num(1)) THEN "decryptWhisperMessage"
    ELSE NoCipherOp

\* new TextDecoder().decode(bytes): UTF-8 of one- and two-byte sequences, a
\* byte that starts no such sequence decoding to U+FFFD
RECURSIVE TextDecoderDecode(_)
TextDecoderDecode(bytes) ==
    IF bytes = <<>> THEN <<>>
    ELSE IF bytes[1] < 128
    THEN <<bytes[1]>> \o TextDecoderDecode(Tail(bytes))
    ELSE IF bytes[1] \in 194..223 /\ Len(bytes) >= 2 /\ bytes[2] \in 128..191
    THEN <<(bytes[1] - 192) * 64 + (bytes[2] - 128)>>
         \o TextDecoderDecode(Tail(Tail(bytes)))
    ELSE <<65533>> \o TextDecoderDecode(Tail(bytes))

MessageTypes ==
    {Num(0), Num(1), Num(2), Num(3), Num(4), Str(<<"1">>), Str(<<"3">>),
     Undefined}
Bodies == {<<>>, <<7>>, <<7, 9>>}
PlainTexts == {<<>>, <<104, 105>>, <<195, 169>>}

\* the call up to its first await, or to the throw that ends it: the catch
\* block logs the error and throws it again
Entered(facade, type, body) ==
    LET op == IF facade = "decode" THEN dispatchV3(type) ELSE dispatch(type)
        m == [type |-> type, body |-> body]
    IN  IF op = NoCipherOp
        THEN [NotDecoding EXCEPT !.pc = "thrown", !.facade = facade,
                                 !.message = m,
                                 !.err = UnsupportedMessageType]
        ELSE [NotDecoding EXCEPT !.pc = "awaiting", !.facade = facade,
                                 !.message = m, !.invoked = <<op>>]

\* what a step of a decoding leaves alone
outsideDecode == <<store, last, codecVars, partyVars, taskVars>>

DecodeInit ==
    /\ store = <<>>
    /\ last = Idle
    /\ NoCodec
    /\ NoDecode
    /\ NoParties
    /\ NoTasks

Call_decodeMessage ==
    /\ decoding.pc = "idle"
    /\ \E type \in MessageTypes, body \in Bodies :
         decoding' = Entered("decodeMessage", type, body)
    /\ UNCHANGED outsideDecode

Call_decode ==
    /\ decoding.pc = "idle"
    /\ \E type \in MessageTypes, body \in Bodies :
         decoding' = Entered("decode", type, body)
    /\ UNCHANGED outsideDecode

CipherResolves ==
    /\ decoding.pc = "awaiting"
    /\ \E plaintext \in PlainTexts :
         decoding' = [decoding EXCEPT
                        !.pc = "settled",
                        !.settled = [ok |-> TRUE, value |-> plaintext,
                                     error |-> NoError]]
    /\ UNCHANGED outsideDecode

CipherRejects ==
    /\ decoding.pc = "awaiting"
    /\ \E error \in CipherErrors :
         decoding' = [decoding EXCEPT
                        !.pc = "settled",
                        !.settled = [ok |-> FALSE, value |-> <<>>,
                                     error |-> error]]
    /\ UNCHANGED outsideDecode

\* the call goes on after its await: it returns the decoded plaintext, or
\* the catch block logs the cipher's error and throws it again
Resume_decode ==
    /\ decoding.pc = "settled"
    /\ decoding' =
         IF decoding.settled.ok
         THEN [decoding EXCEPT
                 !.pc = "returned",
                 !.res = TextDecoderDecode(decoding.settled.value)]
         ELSE [decoding EXCEPT !.pc = "thrown", !.err = decoding.settled.error]
    /\ UNCHANGED outsideDecode

DecodeNext ==
    \/ Call_decodeMessage
    \/ Call_decode
    \/ CipherResolves
    \/ CipherRejects
    \/ Resume_decode

DecodeSpec == DecodeInit /\ [][DecodeNext]_vars

\* C16: decoding fails fast on an unknown wire type: with message.type
\* other than the numbers 1 and 3 the call raises UnsupportedMessageType
\* and invokes no cipher operation; with type 3 it invokes the pre-key
\* decrypt only, with type 1 the ordinary decrypt only, never more than
\* once; and an error of the cipher reaches the caller: the call returns
\* normally only when the cipher has resolved.
C16_DecodeFailsFast ==
    decoding.pc # "idle" =>
        LET type == decoding.message.type
        IN  /\ type = Num(3) =>
                 decoding.invoked = <<"decryptPreKeyWhisperMessage">>
            /\ type = Num(1) =>
                 decoding.invoked = <<"decryptWhisperMessage">>
            /\ type \notin {Num(1), Num(3)} =>
                 /\ decoding.invoked = <<>>
                 /\ decoding.pc = "thrown"
                 /\ decoding.err = UnsupportedMessageType
            /\ (decoding.pc \in {"returned", "thrown"}
                  /\ decoding.invoked # <<>>
                  /\ ~decoding.settled.ok) =>
                 /\ decoding.pc = "thrown"
                 /\ decoding.err = decoding.settled.error
            /\ decoding.pc = "returned" =>
                 /\ decoding.settled.ok
                 /\ decoding.err = NoError

\* a message of type 2 has been refused
C16_Witness ==
    /\ decoding.pc = "thrown"
    /\ decoding.message.type = Num(2)
    /\ decoding.err = UnsupportedMessageType

(***************************************************************************)
(* The managers: two parties, each a SignalProtocolManager with the store  *)
(* its constructor makes (src/index-v1.ts lines 24-29, src/index-v3.ts     *)
(* lines 175-179), each calling createSession (src/index-v1.ts lines       *)
(* 94-127, src/index-v3.ts lines 96-123 and 196-203) as initDemo does.     *)
(***************************************************************************)
Parties == {"alice", "bob"}

\* the store of a manager as it would be if all managers shared one instance
StoreOf_Shared(p) == "alice"

\* this.store = new SignalProtocolStore(): the instance a manager owns
StoreOf(p) == p

Instances == {StoreOf(p) : p \in Parties}

alice == <<"a", "l", "i", "c", "e">>
carol == <<"c", "a", "r", "o", "l">>

NameOf(p) == IF p = "alice" THEN alice ELSE bob
PeerOf(p) == IF p = "alice" THEN "bob" ELSE "alice"

\* a PreKeyBundle as generatePreKeyBundle returns it
Bundle(identityKeyPair, registrationId, preKeyId, preKey, signedId, signed) ==
    [identityKeyPair |-> identityKeyPair,
     registrationId |-> registrationId,
     preKey |-> [keyId |-> preKeyId, keyPair |-> preKey],
     signedPreKey |-> [keyId |-> signedId, keyPair |-> signed]]

GeneratedBundle(p) ==
    IF p = "alice"
    THEN Bundle(KeyPair(<<1, 2, 3>>, <<4, 5, 6>>), Num(5),
                Num(1), KeyPair(<<11>>, <<12>>),
                Num(12), KeyPair(<<13>>, <<14>>))
    ELSE Bundle(KeyPair(<<7, 8, 9>>, <<3, 2, 1>>), Num(6),
                Num(12), KeyPair(<<21>>, <<22>>),
                Num(1), KeyPair(<<23>>, <<24>>))

\* the bundles a caller may hand over for party p: the generated one, and
\* one that lacks the registration id
BundlesOf(p) ==
    {GeneratedBundle(p),
     [GeneratedBundle(p) EXCEPT !.registrationId = Undefined]}

\* the user ids party p may name a remote user by: its peer's name, the
\* empty name, and the name of a third user
UserIds(p) == {NameOf(PeerOf(p)), <<>>, carol}

Facades == {"v1", "v3"}

\* bundle.identityKeyPair.pubKey
PubKeyOf(bundle) == Buf(bundle.identityKeyPair.pubKey.a)

\* new SignalProtocolAddress(userId, 1).toString()
AddressOf(userId) == Str(userId \o <<".", "1">>)

UntrustedIdentity == "UntrustedIdentity"
BadSignature == "BadSignature"
NoIdentityKeyPair == "NoIdentityKeyPair"

\* sessionBuilder.processPreKey(device) of the library on the store st: it
\* asks isTrustedIdentity for the address name, verifies the signature of
\* the signed pre-key, reads the own identity key pair, loads the session
\* of the address, then stores the new session record and saves the
\* identity for the address
processPreKey(st, userId, theirs, verifies, record) ==
    LET r1 == isTrustedIdentity(st, Str(userId), PubKeyOf(theirs))
        r2 == getIdentityKeyPair(r1.st)
        r3 == loadSession(r1.st, AddressOf(userId))
        r4 == storeSession(r1.st, AddressOf(userId), record)
        r5 == saveIdentity(r4.st, AddressOf(userId), PubKeyOf(theirs))
    IN  IF r1.err # NoError THEN Throw(r1.st, r1.err)
        ELSE IF r1.res # True THEN Throw(r1.st, UntrustedIdentity)
        ELSE IF ~verifies THEN Throw(r1.st, BadSignature)
        ELSE IF r2.err # NoError THEN Throw(r1.st, r2.err)
        ELSE IF r2.res = Undefined THEN Throw(r1.st, NoIdentityKeyPair)
        ELSE IF r3.err # NoError THEN Throw(r1.st, r3.err)
        ELSE IF r4.err # NoError THEN Throw(r4.st, r4.err)
        ELSE IF r5.err # NoError THEN Throw(r5.st, r5.err)
        ELSE Ok(r5.st, Undefined)

\* the order as it would be if the bundle were processed before the remote
\* identity is saved
StepAfter_ProcessFirst(step) ==
    CASE step = "putIdentityKey" -> "putRegistrationId"
      [] step = "putRegistrationId" -> "storePreKey"
      [] step = "storePreKey" -> "storeSignedPreKey"
      [] step = "storeSignedPreKey" -> "processPreKey"
      [] step = "processPreKey" -> "saveIdentity"
      [] step = "saveIdentity" -> "return"
      [] step = "return" -> "returned"

\* the statements of createSession in the order in which they run; the
\* first four are initializeStore
StepAfter(step) ==
    CASE step = "putIdentityKey" -> "putRegistrationId"
      [] step = "putRegistrationId" -> "storePreKey"
      [] step = "storePreKey" -> "storeSignedPreKey"
      [] step = "storeSignedPreKey" -> "saveIdentity"
      [] step = "saveIdentity" -> "processPreKey"
      [] step = "processPreKey" -> "return"
      [] step = "return" -> "returned"

\* the order of src/index-v3.ts as it would be if initialize left out the
\* registration id
StepAfterV3_NoRegistrationId(step) ==
    CASE step = "putIdentityKey" -> "storePreKey"
      [] step = "putRegistrationId" -> "storePreKey"
      [] step = "storePreKey" -> "storeSignedPreKey"
      [] step = "storeSignedPreKey" -> "saveIdentity"
      [] step = "saveIdentity" -> "processPreKey"
      [] step = "processPreKey" -> "return"
      [] step = "return" -> "returned"

\* the same statements in the order of src/index-v3.ts: the facade awaits
\* SignalStoreManager.initialize (the first four) and then returns what
\* SignalSessionManager.createSession does (the last three)
StepAfterV3(step) ==
    CASE step = "putIdentityKey" -> "putRegistrationId"
      [] step = "putRegistrationId" -> "storePreKey"
      [] step = "storePreKey" -> "storeSignedPreKey"
      [] step = "storeSignedPreKey" -> "saveIdentity"
      [] step = "saveIdentity" -> "processPreKey"
      [] step = "processPreKey" -> "return"
      [] step = "return" -> "returned"

\* the statement that follows step in the createSession of a facade
NextStatement(facade, step) ==
    IF facade = "v3" THEN StepAfterV3(step) ELSE StepAfter(step)

NoCipher == [made |-> FALSE, store |-> "none", address |-> Undefined]

\* new SessionCipher(this.store, theirAddress)
SessionCipher(instance, address) ==
    [made |-> TRUE, store |-> instance, address |-> address]

\* a manager that has made no call: initDemo has each manager call
\* createSession once.  With the call in progress the record keeps the
\* number of calls made, the map as the call found it, and the user id, own
\* bundle and end of the call before
NotStarted(p) ==
    [pc |-> "idle", facade |-> "none", userId |-> <<>>,
     ours |-> GeneratedBundle(p), theirs |-> GeneratedBundle(PeerOf(p)),
     done |-> <<>>, cipher |-> NoCipher, err |-> NoError,
     calls |-> 0, allowed |-> 1, before |-> <<>>,
     prev |-> [userId |-> <<>>, ours |-> GeneratedBundle(p),
               returned |-> FALSE]]

\* the call s after its statement step had outcome r: it goes on to the
\* next statement, or it is rejected with the error thrown
After(s, step, r) ==
    IF r.err = NoError
    THEN [s EXCEPT !.pc = NextStatement(s.facade, step),
                   !.done = Append(@, step)]
    ELSE [s EXCEPT !.pc = "failed", !.err = r.err]

\* what a step of a manager leaves alone
outsideManagers == <<store, last, codecVars, decoding, taskVars>>

ManagerInit ==
    /\ store = <<>>
    /\ last = Idle
    /\ NoCodec
    /\ NoDecode
    /\ stores = [i \in Instances |-> <<>>]
    /\ session = [p \in Parties |-> NotStarted(p)]
    /\ NoTasks

\* createSession is called and runs to its first await: initializeStore
\* puts the own identity key pair
Call_createSession ==
    \E p \in Parties, facade \in Facades :
      \E userId \in UserIds(p), ours \in BundlesOf(p),
         theirs \in BundlesOf(PeerOf(p)) :
        LET r == put(stores[StoreOf(p)], Str(STORE_PREFIX.IDENTITY),
                     ours.identityKeyPair)
            s == [session[p] EXCEPT
                    !.facade = facade, !.userId = userId,
                    !.ours = ours, !.theirs = theirs,
                    !.done = <<>>, !.cipher = NoCipher, !.err = NoError,
                    !.calls = @ + 1, !.before = stores[StoreOf(p)],
                    !.prev = [userId |-> session[p].userId,
                              ours |-> session[p].ours,
                              returned |-> session[p].pc = "returned"]]
        IN  /\ session[p].pc \in {"idle", "returned", "failed"}
            /\ session[p].calls < session[p].allowed
            /\ session[p].pc = "idle" \/ facade = session[p].facade
            /\ stores' = [stores EXCEPT ![StoreOf(p)] = r.st]
            /\ session' = [session EXCEPT ![p] = After(s, "putIdentityKey", r)]
            /\ UNCHANGED outsideManagers

Step_putRegistrationId ==
    \E p \in Parties :
        LET s == session[p]
            r == put(stores[StoreOf(p)], Str(REGISTRATION_ID),
                     s.ours.registrationId)
        IN  /\ s.pc = "putRegistrationId"
            /\ stores' = [stores EXCEPT ![StoreOf(p)] = r.st]
            /\ session' = [session EXCEPT ![p] = After(s, "putRegistrationId", r)]
            /\ UNCHANGED outsideManagers

Step_storePreKey ==
    \E p \in Parties :
        LET s == session[p]
            r == storePreKey(stores[StoreOf(p)], s.ours.preKey.keyId,
                             s.ours.preKey.keyPair)
        IN  /\ s.pc = "storePreKey"
            /\ stores' = [stores EXCEPT ![StoreOf(p)] = r.st]
            /\ session' = [session EXCEPT ![p] = After(s, "storePreKey", r)]
            /\ UNCHANGED outsideManagers

Step_storeSignedPreKey ==
    \E p \in Parties :
        LET s == session[p]
            r == storeSignedPreKey(stores[StoreOf(p)], s.ours.signedPreKey.keyId,
                                   s.ours.signedPreKey.keyPair)
        IN  /\ s.pc = "storeSignedPreKey"
            /\ stores' = [stores EXCEPT ![StoreOf(p)] = r.st]
            /\ session' = [session EXCEPT ![p] = After(s, "storeSignedPreKey", r)]
            /\ UNCHANGED outsideManagers

Step_saveIdentity ==
    \E p \in Parties :
        LET s == session[p]
            r == saveIdentity(stores[StoreOf(p)], AddressOf(s.userId),
                              PubKeyOf(s.theirs))
        IN  /\ s.pc = "saveIdentity"
            /\ stores' = [stores EXCEPT ![StoreOf(p)] = r.st]
            /\ session' = [session EXCEPT ![p] = After(s, "saveIdentity", r)]
            /\ UNCHANGED outsideManagers

\* the session builder processes their bundle; whether the signature
\* verifies and which record results is the library's business
Step_processPreKey ==
    \E p \in Parties, verifies \in BOOLEAN, record \in SessionRecords :
        LET s == session[p]
            r == processPreKey(stores[StoreOf(p)], s.userId, s.theirs,
                               verifies, record)
        IN  /\ s.pc = "processPreKey"
            /\ stores' = [stores EXCEPT ![StoreOf(p)] = r.st]
            /\ session' = [session EXCEPT ![p] = After(s, "processPreKey", r)]
            /\ UNCHANGED outsideManagers

Return_SessionCipher ==
    \E p \in Parties :
        LET s == session[p]
            r == Ok(stores[StoreOf(p)], Undefined)
        IN  /\ s.pc = "return"
            /\ session' =
                 [session EXCEPT
                    ![p] = [After(s, "return", r) EXCEPT
                              !.cipher = SessionCipher(StoreOf(p),
                                                       AddressOf(s.userId))]]
            /\ UNCHANGED stores
            /\ UNCHANGED outsideManagers

ManagerNext ==
    \/ Call_createSession
    \/ Step_putRegistrationId
    \/ Step_storePreKey
    \/ Step_storeSignedPreKey
    \/ Step_saveIdentity
    \/ Step_processPreKey
    \/ Return_SessionCipher

ManagerSpec == ManagerInit /\ [][ManagerNext]_vars

\* the store of party p holds its peer's identity key under the peer's name
Recorded(p) ==
    LET st == stores[StoreOf(p)]
        key == IdentityKeyOf(Str(NameOf(PeerOf(p))))
    IN  /\ key \in DOMAIN st
        /\ st[key] = PubKeyOf(GeneratedBundle(PeerOf(p)))

\* isTrustedIdentity on the store of party p returns true for its peer,
\* named by name or by address, and the peer's identity key
Trusts(p) ==
    \A id \in {Str(NameOf(PeerOf(p))), AddressOf(NameOf(PeerOf(p)))} :
        Seen(isTrustedIdentity(stores[StoreOf(p)], id,
                               PubKeyOf(GeneratedBundle(PeerOf(p)))))
          = <<True, NoError>>

\* C17: two parties with separate store instances: each manager owns a
\* store of its own, no step of one party changes the other party's store,
\* and once alice's store has recorded bob's identity key and bob's store
\* alice's, isTrustedIdentity for the recorded peer and key returns true in
\* both stores.
C17_SeparateStores ==
    /\ [](\A p \in Parties : StoreOf(p) # StoreOf(PeerOf(p)))
    /\ []((\A p \in Parties : Recorded(p)) => (\A p \in Parties : Trusts(p)))
    /\ [][\A p \in Parties :
            session'[p] # session[p]
              => stores'[StoreOf(PeerOf(p))] = stores[StoreOf(PeerOf(p))]
         ]_vars

\* both parties have their session cipher and have recorded each other
C17_Witness ==
    /\ \A p \in Parties : session[p].pc = "returned" /\ session[p].cipher.made
    /\ \A p \in Parties : Recorded(p)
    /\ stores["alice"] # stores["bob"]

\* the statements a createSession call has completed
Completed(s) == {s.done[i] : i \in 1..Len(s.done)}

\* the store st holds the keys of the bundle ours
HoldsOwnKeys(st, ours) ==
    /\ Seen(getIdentityKeyPair(st)) = <<ours.identityKeyPair, NoError>>
    /\ Seen(getLocalRegistrationId(st)) = <<ours.registrationId, NoError>>
    /\ Seen(loadPreKey(st, ours.preKey.keyId))
         = <<ours.preKey.keyPair, NoError>>
    /\ Seen(loadSignedPreKey(st, ours.signedPreKey.keyId))
         = <<ours.signedPreKey.keyPair, NoError>>

\* C18: createSession ordering: when the session builder is to process the
\* remote bundle, and from then on, the local store holds the caller's own
\* identity key pair, registration id, pre-key and signed pre-key and
\* saveIdentity for the remote address has completed, leaving the remote
\* identity key recorded; a SessionCipher is returned only after the bundle
\* was processed; and a call in which a step failed returns no cipher.
C18_CreateSessionOrder ==
    \A p \in Parties :
        LET s == session[p]
            st == stores[StoreOf(p)]
        IN  /\ s.pc \in {"processPreKey", "return", "returned"} =>
                 /\ {"putIdentityKey", "putRegistrationId", "storePreKey",
                     "storeSignedPreKey", "saveIdentity"} \subseteq Completed(s)
                 /\ HoldsOwnKeys(st, s.ours)
                 /\ ExistingFor(st, AddressOf(s.userId)) = PubKeyOf(s.theirs)
            /\ "processPreKey" \in Completed(s) =>
                 "saveIdentity" \in Completed(s)
            /\ s.cipher.made =>
                 /\ "processPreKey" \in Completed(s)
                 /\ s.err = NoError
            /\ (s.pc = "failed" \/ s.err # NoError) =>
                 /\ s.pc = "failed"
                 /\ ~s.cipher.made
                 /\ "return" \notin Completed(s)

\* alice has got her cipher; bob's call failed in the session builder
C18_Witness ==
    /\ session["alice"].pc = "returned"
    /\ session["alice"].cipher.made
    /\ session["bob"].pc = "failed"
    /\ session["bob"].err = BadSignature

(***************************************************************************)
(* Concurrent callers of one store.  A store method is an async function   *)
(* whose body (src/store.ts lines 104-236) holds no await, so a call runs  *)
(* its whole body when it is made; tasks interleave only between calls.    *)
(***************************************************************************)
NumTasks == 2

TaskIds == 1..NumTasks

Call(op, a1, a2) == [op |-> op, a1 |-> a1, a2 |-> a2]

\* the calls a task may make
TaskCalls ==
    {Call("saveIdentity", Str(bob1), KeyA),
     Call("saveIdentity", Str(bob1), KeyB),
     Call("isTrustedIdentity", Str(bob), KeyA),
     Call("loadIdentityKey", Str(bob), Undefined),
     Call("storeSession", Str(bob1), RecA),
     Call("loadSession", Str(bob1), Undefined),
     Call("removeAllSessions", Str(bob), Undefined)}

\* the maps the tasks may start on
InitialStores ==
    {<<>>,
     SessionKeyOf(Str(bob1)) :> RecB,
     IdentityKeyOf(Str(bob)) :> KeyA}

\* the whole body of the method of call c on the store st
Exec(st, c) ==
    CASE c.op = "saveIdentity" -> saveIdentity(st, c.a1, c.a2)
      [] c.op = "isTrustedIdentity" -> isTrustedIdentity(st, c.a1, c.a2)
      [] c.op = "loadIdentityKey" -> loadIdentityKey(st, c.a1)
      [] c.op = "storeSession" -> storeSession(st, c.a1, c.a2)
      [] c.op = "loadSession" -> loadSession(st, c.a1)
      [] c.op = "removeAllSessions" -> removeAllSessions(st, c.a1)

\* saveIdentity up to and including its read of the existing entry (lines
\* 168-176), and from there on with the entry it has read (lines 178-188)
saveIdentity_read(st, identifier, identityKey) ==
    IF ~validateKeyValue(identifier, identityKey) THEN Throw(st, InvalidArgument)
    ELSE IF ~AddressMatches(JSToString(identifier)) THEN Throw(st, InvalidAddress)
    ELSE Ok(st, get(st, Str(STORE_PREFIX.IDENTITY
                              \o getName(JSToString(identifier))),
                    Undefined).res)

saveIdentity_write(st, identifier, identityKey, existing) ==
    IF Truthy(existing) /\ ~isArrayBuffer(existing)
    THEN Throw(st, CorruptState)
    ELSE Ok(put(st, Str(STORE_PREFIX.IDENTITY
                          \o getName(JSToString(identifier))),
                identityKey).st,
            Bool(Truthy(existing)
                 /\ arrayBufferToString(identityKey)
                      # arrayBufferToString(existing)))

\* the segments as they would be if saveIdentity awaited between its read
\* of the existing entry and its write
Segments_AwaitInSaveIdentity(op) ==
    IF op = "saveIdentity" THEN <<"read", "write">> ELSE <<"body">>

\* the segments that the await expressions of a method's body cut it into,
\* each run without suspension: no method of the store holds an await, so
\* the body is one segment
Segments(op) == <<"body">>

NewTask(c) ==
    [call |-> c, at |-> 1, local |-> Undefined, res |-> Undefined,
     err |-> NoError, done |-> FALSE]

\* the next segment of task t on the store st
RunSegment(st, t) ==
    LET seg == Segments(t.call.op)[t.at]
    IN  CASE seg = "body" -> Exec(st, t.call)
          [] seg = "read" -> saveIdentity_read(st, t.call.a1, t.call.a2)
          [] seg = "write" ->
               saveIdentity_write(st, t.call.a1, t.call.a2, t.local)

\* task t after its next segment had outcome r: the call is over when the
\* segment threw or was the last one, and else keeps what it has read
Ran(t, r) ==
    IF r.err # NoError \/ t.at = Len(Segments(t.call.op))
    THEN [t EXCEPT !.res = r.res, !.err = r.err, !.done = TRUE]
    ELSE [t EXCEPT !.at = @ + 1, !.local = r.res]

\* what a step of a task leaves alone
outsideTasks == <<last, codecVars, decoding, partyVars>>

ConcurrentInit ==
    /\ store \in InitialStores
    /\ initialStore = store
    /\ tasks \in [TaskIds -> {NewTask(c) : c \in TaskCalls}]
    /\ last = Idle
    /\ NoCodec
    /\ NoDecode
    /\ NoParties

\* the scheduler lets some task run until it next suspends or returns
Run ==
    \E i \in TaskIds :
        LET r == RunSegment(store, tasks[i])
        IN  /\ ~tasks[i].done
            /\ store' = r.st
            /\ tasks' = [tasks EXCEPT ![i] = Ran(tasks[i], r)]
            /\ UNCHANGED initialStore
            /\ UNCHANGED outsideTasks

ConcurrentNext == Run

ConcurrentSpec == ConcurrentInit /\ [][ConcurrentNext]_vars

\* the orders in which the tasks' calls can be run one after the other
Orders == {o \in [TaskIds -> TaskIds] : \A i, j \in TaskIds : o[i] = o[j] => i = j}

\* the map after the first k calls of order o were run whole, one by one
RECURSIVE StoreAfter(_, _)
StoreAfter(o, k) ==
    IF k = 0 THEN initialStore
    ELSE Exec(StoreAfter(o, k - 1), tasks[o[k]].call).st

\* the tasks ended as if their calls had run whole in the order o
AsInOrder(o) ==
    /\ store = StoreAfter(o, NumTasks)
    /\ \A k \in TaskIds :
         <<tasks[o[k]].res, tasks[o[k]].err>>
           = Seen(Exec(StoreAfter(o, k - 1), tasks[o[k]].call))

AllDone == \A i \in TaskIds : tasks[i].done

\* tasks i and j save different keys for bob.1, no key is recorded for bob
\* at the start, and the other tasks work on sessions only
TwoSaves(i, j) ==
    /\ tasks[i].call = Call("saveIdentity", Str(bob1), KeyA)
    /\ tasks[j].call = Call("saveIdentity", Str(bob1), KeyB)
    /\ IdentityKeyOf(Str(bob)) \notin DOMAIN initialStore
    /\ \A k \in TaskIds \ {i, j} :
         tasks[k].call.op \in SessionOps \cup {"loadSession"}

\* C19: store operations are atomic for asynchronous callers: however the
\* tasks interleave, they end with the map and the outcomes that running
\* their calls whole in some order gives; in particular two concurrent
\* saveIdentity calls for one peer with different keys, with no key
\* recorded at the start, end with one of the two keys recorded and exactly
\* one of the calls returning true.
C19_AtomicOperations ==
    AllDone =>
        /\ \E o \in Orders : AsInOrder(o)
        /\ \A i, j \in TaskIds :
             TwoSaves(i, j) =>
                 /\ IdentityKeyOf(Str(bob)) \in DOMAIN store
                 /\ store[IdentityKeyOf(Str(bob))] \in {KeyA, KeyB}
                 /\ Cardinality({k \in {i, j} : tasks[k].res = True}) = 1

\* two concurrent saveIdentity calls for bob.1 with different keys have
\* ended, the second of them having replaced the key of the first
C19_Witness ==
    /\ AllDone
    /\ \E i, j \in TaskIds : TwoSaves(i, j) /\ tasks[i].res = True
    /\ store[IdentityKeyOf(Str(bob))] = KeyA

\* C21: every store operation that fails with InvalidArgument leaves the
\* store unchanged; in particular isTrustedIdentity with a null identifier
\* raises the error without deleting or altering any entry, the entry of a
\* peer named "null" included.
C21_InvalidArgumentLeavesStore ==
    [][last'.err = InvalidArgument => store' = store]_vars

\* the part of C21 that holds: every operation but isTrustedIdentity leaves
\* the store unchanged when it fails with InvalidArgument
C21_ButTrustCheck ==
    [][(last'.err = InvalidArgument /\ last'.op # "isTrustedIdentity")
         => store' = store]_vars

\* the pure read accessors
ReadOps ==
    {"get", "getIdentityKeyPair", "getLocalRegistrationId", "loadPreKey",
     "loadSignedPreKey", "loadSession", "loadIdentityKey"}

\* the read accessor of the recorded call c, made on the store st
ReadAgain(st, c) ==
    CASE c.op = "get" -> get(st, c.a1, c.a2)
      [] c.op = "getIdentityKeyPair" -> getIdentityKeyPair(st)
      [] c.op = "getLocalRegistrationId" -> getLocalRegistrationId(st)
      [] c.op = "loadPreKey" -> loadPreKey(st, c.a1)
      [] c.op = "loadSignedPreKey" -> loadSignedPreKey(st, c.a1)
      [] c.op = "loadSession" -> loadSession(st, c.a1)
      [] c.op = "loadIdentityKey" -> loadIdentityKey(st, c.a1)

\* C22: the pure read accessors leave the store unchanged in every
\* reachable state, whether they return a value, return absent or raise an
\* error, and the same call made again right after gives the same outcome
\* and again leaves the store unchanged.
C22_ReadsLeaveStore ==
    [][last'.op \in ReadOps =>
         /\ store' = store
         /\ Seen(ReadAgain(store', last')) = <<last'.res, last'.err>>
         /\ ReadAgain(store', last').st = store'
      ]_vars

\* a read of the session of bob.1 has failed on a stored value of the
\* wrong type, in a store of two entries
C22_Witness ==
    /\ last.op = "loadSession"
    /\ last.err = CorruptState
    /\ Cardinality(DOMAIN store) = 2

\* the statements of the createSession of a facade from step on, up to the
\* return
RECURSIVE StatementsFrom(_, _)
StatementsFrom(facade, step) ==
    IF step = "returned" THEN <<>>
    ELSE <<step>> \o StatementsFrom(facade, NextStatement(facade, step))

\* the statements of createSession in src/index-v1.ts and in src/index-v3.ts
V1Statements == StatementsFrom("v1", "putIdentityKey")
V3Statements == StatementsFrom("v3", "putIdentityKey")

\* the outcome on the store st of one statement of the call s, in which the
\* session builder finds the signature to verify or not and makes record
Statement(st, name, s, verifies, record) ==
    CASE name = "putIdentityKey" ->
           put(st, Str(STORE_PREFIX.IDENTITY), s.ours.identityKeyPair)
      [] name = "putRegistrationId" ->
           put(st, Str(REGISTRATION_ID), s.ours.registrationId)
      [] name = "storePreKey" ->
           storePreKey(st, s.ours.preKey.keyId, s.ours.preKey.keyPair)
      [] name = "storeSignedPreKey" ->
           storeSignedPreKey(st, s.ours.signedPreKey.keyId,
                             s.ours.signedPreKey.keyPair)
      [] name = "saveIdentity" ->
           saveIdentity(st, AddressOf(s.userId), PubKeyOf(s.theirs))
      [] name = "processPreKey" ->
           processPreKey(st, s.userId, s.theirs, verifies, record)
      [] name = "return" -> Ok(st, Undefined)

\* the store after the first k statements of the createSession of
\* src/index-v1.ts, run on the store the call s found
RECURSIVE V1Run(_, _, _, _)
V1Run(s, k, verifies, record) ==
    IF k = 0 THEN s.before
    ELSE Statement(V1Run(s, k - 1, verifies, record), V1Statements[k], s,
                   verifies, record).st

\* the call s on the store st stands where the createSession of
\* src/index-v1.ts stands after the same number of statements
AsV1(s, st) ==
    LET n == Len(s.done)
    IN  /\ n <= Len(V1Statements)
        /\ \A k \in 1..n : s.done[k] = V1Statements[k]
        /\ s.cipher.made <=> n = Len(V1Statements)
        /\ \E verifies \in BOOLEAN, record \in SessionRecords :
             IF s.pc = "failed"
             THEN LET o == Statement(V1Run(s, n, verifies, record),
                                     V1Statements[n + 1], s, verifies, record)
                  IN  o.err = s.err /\ o.st = st
             ELSE /\ st = V1Run(s, n, verifies, record)
                  /\ s.pc = IF n = Len(V1Statements) THEN "returned"
                            ELSE V1Statements[n + 1]

\* C23: the two facades are equivalent: for the same user id, own bundle
\* and remote bundle the createSession of src/index-v3.ts issues the
\* statements of the createSession of src/index-v1.ts in the same order and
\* leaves the store as that one does, after every statement and when it
\* fails; and decode and decodeMessage choose the cipher operation alike
\* for every message type.
C23_FacadesEquivalent ==
    /\ V3Statements = V1Statements
    /\ \A type \in MessageTypes : dispatchV3(type) = dispatch(type)
    /\ \A p \in Parties :
         session[p].facade = "v3" => AsV1(session[p], stores[StoreOf(p)])

\* a manager of src/index-v3.ts has returned its cipher and another one has
\* failed in the session builder
C23_Witness ==
    /\ session["alice"].facade = "v3"
    /\ session["alice"].pc = "returned"
    /\ session["bob"].facade = "v3"
    /\ session["bob"].pc = "failed"
    /\ session["bob"].err = BadSignature

(***************************************************************************)
(* One manager that calls createSession again once a call has ended, with  *)
(* the statements of ManagerNext.                                          *)
(***************************************************************************)
MaxCalls == 2

Repeater == "alice"

RepeatInit ==
    /\ store = <<>>
    /\ last = Idle
    /\ NoCodec
    /\ NoDecode
    /\ stores = [i \in Instances |-> <<>>]
    /\ session = [p \in Parties |->
                    [NotStarted(p) EXCEPT
                       !.allowed = IF p = Repeater THEN MaxCalls ELSE 0]]
    /\ NoTasks

RepeatSpec == RepeatInit /\ [][ManagerNext]_vars

\* the keys under which a store holds the entries of the own bundle ours
OwnKeys(ours) ==
    {STORE_PREFIX.IDENTITY, REGISTRATION_ID, PreKeyOf(ours.preKey.keyId),
     SignedKeyOf(ours.signedPreKey.keyId)}

\* the store st holds under key what the store before held there
Kept(st, before, key) ==
    /\ key \in DOMAIN before
    /\ key \in DOMAIN st
    /\ st[key] = before[key]

\* the call s is over, it is a further call with the own bundle of the call
\* before it, and that call returned its cipher
CalledAgain(s) ==
    /\ s.calls >= 2
    /\ s.pc \in {"returned", "failed"}
    /\ s.prev.returned
    /\ s.ours = s.prev.ours

\* C24: store initialization is idempotent and non-destructive: a second
\* createSession on the same manager with the same own bundle, for the same
\* or another remote user, leaves the own identity key pair, registration
\* id, pre-key and signed pre-key entries as they were after the first
\* call, and leaves the trusted identity and the session recorded for the
\* first remote user as they were.
C24_InitializationIdempotent ==
    \A p \in Parties :
        LET s == session[p]
            st == stores[StoreOf(p)]
        IN  CalledAgain(s) =>
              /\ \A key \in OwnKeys(s.ours) : Kept(st, s.before, key)
              /\ Kept(st, s.before, IdentityKeyOf(Str(s.prev.userId)))
              /\ Kept(st, s.before, SessionKeyOf(AddressOf(s.prev.userId)))

\* the part of C24 that holds: the own entries are kept in every further
\* call, and the first user's entries in every further call for another
\* user
C24_OwnEntriesAndOtherUsers ==
    \A p \in Parties :
        LET s == session[p]
            st == stores[StoreOf(p)]
        IN  CalledAgain(s) =>
              /\ \A key \in OwnKeys(s.ours) : Kept(st, s.before, key)
              /\ s.userId # s.prev.userId =>
                   /\ Kept(st, s.before, IdentityKeyOf(Str(s.prev.userId)))
                   /\ Kept(st, s.before,
                           SessionKeyOf(AddressOf(s.prev.userId)))

\* the part of C24 about the first user's trusted identity alone
C24_TrustedIdentityKept ==
    \A p \in Parties :
        CalledAgain(session[p]) =>
            Kept(stores[StoreOf(p)], session[p].before,
                 IdentityKeyOf(Str(session[p].prev.userId)))

\* a further call for the same user that returns keeps the trusted identity
C24_TrustedIdentityKeptOnReturn ==
    \A p \in Parties :
        (CalledAgain(session[p]) /\ session[p].pc = "returned") =>
            Kept(stores[StoreOf(p)], session[p].before,
                 IdentityKeyOf(Str(session[p].prev.userId)))

=============================================================================
